---------------------------- MODULE Spec2Model ----------------------------
(***************************************************************************)
(* Model of the NLP analysis service of functions/main.py (the "main"      *)
(* deployment, a Cloud Function) and functions/nlp_processor_gcf.py (the   *)
(* "gcf" deployment, a Flask app).                                         *)
(*                                                                         *)
(* The external collaborators (model load, predict, the transcription      *)
(* providers, the token verifier) are calls whose outcome is a             *)
(* nondeterministic choice between returning and raising.                  *)
(*                                                                         *)
(* Text is a sequence of characters: "w" is a letter, " " whitespace, "."   *)
(* a full stop and "c" a contracted form that contractions.fix expands to  *)
(* two words.                                                              *)
(***************************************************************************)
EXTENDS Integers, Sequences, FiniteSets, TLC

\* ------------------------------------------------------------------ bounds

\* Longest list of segments the transcription provider returns in the model.
MaxSegments == 2

\* ------------------------------------------------------------- vocabulary

\* Module-level handle value of an unloaded model (_sentiment_model = None ...).
None == 0

\* The four inference capabilities, in the order get_models acquires them.
CapOrder == <<"sentiment", "ner", "pos", "topic">>

Caps == {CapOrder[i] : i \in 1..Len(CapOrder)}

Threads == {1, 2}

Deployments == {"main", "gcf"}

\* ------------------------------------------------------------------- text

\* str.strip() on the left: drop leading whitespace.
RECURSIVE LStrip(_)
LStrip(s) ==
    IF s = <<>> THEN <<>>
    ELSE IF Head(s) = " " THEN LStrip(Tail(s)) ELSE s

\* str.strip() on the right: drop trailing whitespace.
RECURSIVE RStrip(_)
RStrip(s) ==
    IF s = <<>> THEN <<>>
    ELSE IF s[Len(s)] = " " THEN RStrip(SubSeq(s, 1, Len(s) - 1)) ELSE s

\* str.strip()
Strip(s) == RStrip(LStrip(s))

\* contractions.fix: every contracted form becomes two words.
RECURSIVE Fix(_)
Fix(s) ==
    IF s = <<>> THEN <<>>
    ELSE IF Head(s) = "c" THEN <<"w", " ", "w">> \o Fix(Tail(s))
    ELSE <<Head(s)>> \o Fix(Tail(s))

\* len(clean.split()): the number of maximal runs of non-whitespace.
RECURSIVE WordCount(_)
WordCount(s) ==
    IF s = <<>> THEN 0
    ELSE (IF Head(s) # " " /\ (Len(s) = 1 \/ s[2] = " ") THEN 1 ELSE 0)
         + WordCount(Tail(s))

\* len([x for x in clean.split('.') if x.strip()]): the '.'-separated pieces
\* that hold something other than whitespace.  seen: the current piece does.
RECURSIVE SentenceCountFrom(_, _)
SentenceCountFrom(s, seen) ==
    IF s = <<>> THEN (IF seen THEN 1 ELSE 0)
    ELSE IF Head(s) = "." THEN (IF seen THEN 1 ELSE 0) + SentenceCountFrom(Tail(s), FALSE)
    ELSE SentenceCountFrom(Tail(s), seen \/ Head(s) # " ")

SentenceCount(s) == SentenceCountFrom(s, FALSE)

\* len(Sentence(clean)): flair tokens, a word or a punctuation mark each.
RECURSIVE TokenCount(_)
TokenCount(s) ==
    IF s = <<>> THEN 0
    ELSE (IF Head(s) = "." THEN 1
          ELSE IF Head(s) # " " /\ (Len(s) = 1 \/ s[2] \in {" ", "."}) THEN 1
          ELSE 0)
         + TokenCount(Tail(s))

\* The texts a request's JSON body carries in its transcription field.
Texts == { <<>>, <<" ">>, <<"w", ".">>, <<" ", "c">> }

\* The audioUrl values: absent, or a reference to a recording.
AudioUrls == { <<>>, <<"w">> }

\* ------------------------------------------------------------------ state

VARIABLES
    deployment,  \* which of the two source files is deployed in this process
    mounted,     \* main: which model artifacts exist under MOUNT_PATH
    cache,       \* the module-level handles _sentiment_model, _ner_model, ...
    succLoads,   \* history: per capability, the load calls that returned a handle
    sticky,      \* history: what earlier requests left recorded per capability
    pc,          \* per thread, the position of the request it is handling
    cap,         \* per thread, get_models: index in CapOrder of the current block
    src,         \* per thread, get_models: the source the next load call uses
    tmp,         \* per thread, get_models: the value a load call is about to store
    loadLog,     \* per thread, history: the load calls of the current request
    models,      \* per thread, the tuple get_models returned
    req,         \* per thread, the HTTP request being handled
    text,        \* per thread, the text under analysis
    result,      \* per thread, the result dict of analyze_transcription
    calls,       \* per thread, history: the stages run for the current request
    exc,         \* per thread, the exception propagating out of the pipeline
    resp,        \* per thread, the HTTP response
    transcribed, \* per thread, history: the transcription calls of the request
    verified,    \* per thread, history: the verify_id_token calls of the request
    tgIn,        \* transcribe_gcs: the provider's behaviour for the two attempts
    tgOut,       \* transcribe_gcs: what the call produced
    uriIn,       \* convert_to_gs_uri: the reference it is called with
    uriOut,      \* convert_to_gs_uri: what the call returned
    fwIn,        \* detect_flagged_words_server: the text it is called with
    fwOut,       \* detect_flagged_words_server: the list the call returned
    ta,          \* transcribe_audio: the position of a call and its temporary file
    health       \* gcf: the body of the last GET /health response

reqVars == <<req, text, result, calls, exc, resp, transcribed, verified>>

tgVars == <<tgIn, tgOut>>

fnVars == <<uriIn, uriOut, fwIn, fwOut, ta, health>>

vars == <<deployment, mounted, cache, succLoads, sticky, pc, cap, src, tmp,
          loadLog, models, req, text, result, calls, exc, resp, transcribed,
          verified, tgIn, tgOut, uriIn, uriOut, fwIn, fwOut, ta, health>>

\* ------------------------------------------------------------- get_models

\* The source get_models tries first for capability c.  main: the mounted
\* artifact when it exists, else the named download.  gcf: the chain the call
\* is in (the fast models, or the standard models of the except block).
FirstSource(t, c) ==
    IF deployment = "main"
    THEN (IF mounted[c] THEN "primary" ELSE "fallback")
    ELSE src[t]

\* Where get_models goes once the block of capability number i is finished.
Advance(t, i) ==
    IF i < Len(CapOrder)
    THEN /\ cap' = [cap EXCEPT ![t] = i + 1]
         /\ pc' = [pc EXCEPT ![t] = "gm_check"]
    ELSE /\ cap' = cap
         /\ pc' = [pc EXCEPT ![t] = "gm_return"]

\* `if _x_model is None:` at the head of each capability's block.
GmCheck(t) ==
    /\ pc[t] = "gm_check"
    /\ LET c == CapOrder[cap[t]] IN
        IF cache[c] # None
        THEN /\ Advance(t, cap[t])
             /\ src' = src
        ELSE /\ pc' = [pc EXCEPT ![t] = "gm_load"]
             /\ src' = [src EXCEPT ![t] = FirstSource(t, c)]
             /\ cap' = cap
    /\ UNCHANGED <<deployment, mounted, cache, succLoads, sticky, tmp, loadLog,
                   models, reqVars, tgVars, fnVars>>

\* What a failed load call leads to.  main: only the download of the POS
\* tagger and of the topic classifier is inside a try (it assigns None and
\* goes on); every other failure leaves get_models.  gcf: a failure in the
\* first chain enters the except block, which starts over with the standard
\* models; a failure there raises.
OnLoadFailure(c, s) ==
    IF deployment = "main"
    THEN (IF c \in {"pos", "topic"} /\ s = "fallback" THEN "assign_none" ELSE "raise")
    ELSE (IF s = "primary" THEN "fallback_chain" ELSE "raise")

\* One Classifier.load / SequenceTagger.load / pipeline(...) call.
GmLoad(t) ==
    /\ pc[t] = "gm_load"
    /\ \E ok \in BOOLEAN :
        LET c == CapOrder[cap[t]] IN
        /\ loadLog' = [loadLog EXCEPT ![t] =
                          Append(@, [cap |-> c, src |-> src[t], ok |-> ok])]
        /\ IF ok
           THEN /\ succLoads' = [succLoads EXCEPT ![c] = @ + 1]
                /\ tmp' = [tmp EXCEPT ![t] = succLoads[c] + 1]
                /\ pc' = [pc EXCEPT ![t] = "gm_store"]
                /\ UNCHANGED <<cap, src>>
           ELSE /\ succLoads' = succLoads
                /\ CASE OnLoadFailure(c, src[t]) = "assign_none" ->
                          /\ tmp' = [tmp EXCEPT ![t] = None]
                          /\ pc' = [pc EXCEPT ![t] = "gm_store"]
                          /\ UNCHANGED <<cap, src>>
                     [] OnLoadFailure(c, src[t]) = "fallback_chain" ->
                          /\ src' = [src EXCEPT ![t] = "fallback"]
                          /\ cap' = [cap EXCEPT ![t] = 1]
                          /\ pc' = [pc EXCEPT ![t] = "gm_check"]
                          /\ tmp' = tmp
                     [] OTHER ->
                          /\ pc' = [pc EXCEPT ![t] = "gm_raised"]
                          /\ UNCHANGED <<cap, src, tmp>>
    /\ UNCHANGED <<deployment, mounted, cache, sticky, models, reqVars, tgVars, fnVars>>

\* main line 95: the statement after the if/else of the sentiment block is
\* not part of the else, so the named model is loaded after the mounted one.
LoadsAgain(c, s) == deployment = "main" /\ c = "sentiment" /\ s = "primary"

\* The assignment of the load's value to the module-level handle.
GmStore(t) ==
    /\ pc[t] = "gm_store"
    /\ LET c == CapOrder[cap[t]] IN
        /\ cache' = [cache EXCEPT ![c] = tmp[t]]
        /\ IF LoadsAgain(c, src[t])
           THEN /\ src' = [src EXCEPT ![t] = "fallback"]
                /\ pc' = [pc EXCEPT ![t] = "gm_load"]
                /\ cap' = cap
           ELSE /\ Advance(t, cap[t])
                /\ src' = src
    /\ UNCHANGED <<deployment, mounted, succLoads, sticky, tmp, loadLog, models,
                   reqVars, tgVars, fnVars>>

\* `return _sentiment_model, _ner_model, _pos_model, _topic_classifier`:
\* the handles are read from the module-level names when the call returns.
GmReturn(t) ==
    /\ pc[t] = "gm_return"
    /\ models' = [models EXCEPT ![t] = cache]
    /\ pc' = [pc EXCEPT ![t] = "gm_returned"]
    /\ UNCHANGED <<deployment, mounted, cache, succLoads, sticky, cap, src, tmp,
                   loadLog, reqVars, tgVars, fnVars>>

\* --------------------------------------------------------- transcribe_gcs

\* The transcripts the provider returns as a segment's top alternative.
SegTexts == { <<"w">>, <<" ", "w">> }

\* A segment of the provider's response: its alternatives, possibly none.
Segments == { <<>> } \cup { <<s>> : s \in SegTexts }

\* The lists of at most n segments.
RECURSIVE SegLists(_)
SegLists(n) ==
    IF n = 0 THEN { <<>> }
    ELSE SegLists(n - 1) \cup
         { Append(l, s) : l \in { x \in SegLists(n - 1) : Len(x) = n - 1 }, s \in Segments }

\* What the provider does with one submitted job: long_running_recognize
\* returns or raises, operation.result(timeout=480) returns or raises (an
\* error of the job, or the timeout), and the response lists the segments.
Behaviours == [submit : BOOLEAN, wait : BOOLEAN, results : SegLists(MaxSegments)]

\* The loop `transcript += result.alternatives[0].transcript + " "`: it
\* raises IndexError on a segment that has no alternative.
ReadRaises(results) == \E i \in 1..Len(results) : results[i] = <<>>

RECURSIVE Concatenated(_)
Concatenated(results) ==
    IF results = <<>> THEN <<>>
    ELSE Head(results)[1] \o <<" ">> \o Concatenated(Tail(results))

\* One try block of transcribe_gcs completes without raising.
AttemptSucceeds(b) == b.submit /\ b.wait /\ ~ReadRaises(b.results)

\* `return transcript.strip()`
AttemptTranscript(b) == Strip(Concatenated(b.results))

\* A transcribe_gcs whose except clause covers the submission only: a job
\* that was accepted and then fails or times out is not retried.
transcribe_gcs_SubmitOnly(primary, fallback) ==
    IF AttemptSucceeds(primary)
    THEN [raised |-> FALSE, transcript |-> AttemptTranscript(primary),
          submitted |-> <<"WEBM_OPUS_48000">>]
    ELSE IF primary.submit
    THEN [raised |-> TRUE, transcript |-> <<>>, submitted |-> <<"WEBM_OPUS_48000">>]
    ELSE IF AttemptSucceeds(fallback)
    THEN [raised |-> FALSE, transcript |-> AttemptTranscript(fallback),
          submitted |-> <<"WEBM_OPUS_48000", "UNSPECIFIED">>]
    ELSE [raised |-> TRUE, transcript |-> <<>>,
          submitted |-> <<"WEBM_OPUS_48000", "UNSPECIFIED">>]

\* transcribe_gcs: the WEBM_OPUS/48000 job first; when anything in its try
\* block raises, one job with no encoding given; e2 is raised when that try
\* block raises too.  submitted lists the configurations of the
\* long_running_recognize calls made.
transcribe_gcs(primary, fallback) ==
    IF AttemptSucceeds(primary)
    THEN [raised |-> FALSE, transcript |-> AttemptTranscript(primary),
          submitted |-> <<"WEBM_OPUS_48000">>]
    ELSE IF AttemptSucceeds(fallback)
    THEN [raised |-> FALSE, transcript |-> AttemptTranscript(fallback),
          submitted |-> <<"WEBM_OPUS_48000", "UNSPECIFIED">>]
    ELSE [raised |-> TRUE, transcript |-> <<>>,
          submitted |-> <<"WEBM_OPUS_48000", "UNSPECIFIED">>]

NotCalled == [raised |-> FALSE, transcript |-> <<>>, submitted |-> <<>>]

\* A transcribe_gcs call against the provider behaviour drawn in tgIn.
TgCall ==
    /\ tgOut = NotCalled
    /\ tgOut' = transcribe_gcs(tgIn.primary, tgIn.fallback)
    /\ UNCHANGED <<deployment, mounted, cache, succLoads, sticky, pc, cap, src,
                   tmp, loadLog, models, reqVars, tgIn, fnVars>>

\* ------------------------------------------------------ convert_to_gs_uri

\* A reference is a sequence of tokens: the separators "/" and "?", the
\* escape "%2F", the origin the function looks for (one token), another
\* origin, and plain names.  The references of Urls hold no ';' and no '#'.
FirebasePrefix == "https://firebasestorage.googleapis.com"

OtherOrigin == "https://example.com"

MaxPathParts == 6

\* The first segment of a path: the version of the web-facing form, or
\* another name.
VersionParts == { <<"v0">>, <<"x">> }

\* The later segments: the literal names the function compares with, a
\* plain name, and a name with an escaped slash.
PathParts == { <<"b">>, <<"o">>, <<"x">>, <<"x", "%2F", "y">> }

RECURSIVE PathsOf(_)
\* The paths of exactly n segments, each written after a "/".
PathsOf(n) ==
    IF n = 0 THEN { <<>> }
    ELSE { p \o <<"/">> \o q :
             p \in PathsOf(n - 1),
             q \in IF n = 1 THEN VersionParts ELSE PathParts }

\* The references convert_to_gs_uri is called with: the empty string, and an
\* origin, possibly with more host after it, a path and possibly a query.
Urls ==
    { <<>> } \cup
    { <<o>> \o h \o p \o q :
        o \in {FirebasePrefix, OtherOrigin},
        h \in { <<>>, <<"x">> },
        p \in UNION { PathsOf(n) : n \in 0..MaxPathParts },
        q \in { <<>>, <<"?", "x">> } }

\* The index of the first token of s at or after i that is in stops, or
\* Len(s) + 1.
RECURSIVE FirstOf(_, _, _)
FirstOf(s, i, stops) ==
    IF i > Len(s) \/ s[i] \in stops THEN i ELSE FirstOf(s, i + 1, stops)

\* urllib.parse.urlparse(http_url).path: what follows the network location
\* (which ends at the first "/" or "?") up to the query.
UrlPath(url) ==
    LET from == FirstOf(url, 2, {"/", "?"})
        to == FirstOf(url, from, {"?"})
    IN SubSeq(url, from, to - 1)

\* str.split('/'): the pieces between the separators, empty ones included.
RECURSIVE SplitSlash(_)
SplitSlash(s) ==
    LET i == FirstOf(s, 1, {"/"}) IN
    IF i > Len(s) THEN << s >>
    ELSE << SubSeq(s, 1, i - 1) >> \o SplitSlash(SubSeq(s, i + 1, Len(s)))

\* urllib.parse.unquote: an escape becomes the character it stands for.
RECURSIVE Unquote(_)
Unquote(s) ==
    IF s = <<>> THEN <<>>
    ELSE << IF Head(s) = "%2F" THEN "/" ELSE Head(s) >> \o Unquote(Tail(s))

\* convert_to_gs_uri(http_url).  path_parts[k] of the code is parts[k + 1].
convert_to_gs_uri(http_url) ==
    IF http_url = <<>> \/ Head(http_url) # FirebasePrefix
    THEN http_url
    ELSE LET parts == SplitSlash(UrlPath(http_url)) IN
         IF Len(parts) > 5 /\ parts[3] = <<"b">> /\ parts[5] = <<"o">>
         THEN <<"gs://">> \o parts[4] \o <<"/">> \o Unquote(parts[6])
         ELSE http_url

NotConverted == <<"not called">>

\* One call of convert_to_gs_uri.
UriCall ==
    /\ uriOut = NotConverted
    /\ uriOut' = convert_to_gs_uri(uriIn)
    /\ UNCHANGED <<deployment, mounted, cache, succLoads, sticky, pc, cap, src,
                   tmp, loadLog, models, reqVars, tgVars, uriIn, fwIn, fwOut,
                   ta, health>>

\* ------------------------------------------------------------ nlp_analyze

\* The Authorization header: absent, not starting with 'Bearer ', a token
\* auth.verify_id_token rejects with a ValueError or with another
\* exception, or a token it accepts.
AuthKinds == {"missing", "badscheme", "rejected_value", "rejected", "valid"}

Requests == [method : {"POST", "OPTIONS"}, auth : AuthKinds, json : BOOLEAN,
             text : Texts, audio : AudioUrls]

NoRequest == [method |-> "none", auth |-> "missing", json |-> FALSE,
              text |-> <<>>, audio |-> <<>>]

NoResponse == [status |-> 0, body |-> <<>>]

\* The classes of exception the handlers of nlp_analyze tell apart.
ExcKinds == {"ValueError", "Exception"}

\* str(e) of an exception raised by a collaborator.
ExcText == "EXCEPTION_TEXT"

\* decoded['uid'] of an accepted token.
Uid == "uid-1"

\* d[k] = v on a dict.
Put(d, k, v) == [x \in DOMAIN d \cup {k} |-> IF x = k THEN v ELSE d[x]]

\* result['errors'].append(msg)
AddError(d, msg) == Put(d, "errors", Append(d["errors"], msg))

Goto(t, p) ==
    /\ pc' = [pc EXCEPT ![t] = p]
    /\ UNCHANGED <<resp, exc>>

\* `return (body, status, headers)` / `return jsonify(body), status`
Reply(t, status, body) ==
    /\ pc' = [pc EXCEPT ![t] = "responded"]
    /\ resp' = [resp EXCEPT ![t] = [status |-> status, body |-> body]]
    /\ UNCHANGED exc

\* An exception of class kind leaves the try block of the pipeline.
Raise(t, kind) ==
    /\ pc' = [pc EXCEPT ![t] = "raised"]
    /\ exc' = [exc EXCEPT ![t] = kind]
    /\ UNCHANGED resp

\* What the module-level handles and the finished request leave recorded for
\* capability c: a handle, or the None that main assigns when the download of
\* the POS tagger or of the topic classifier failed.
Recorded(t, c) ==
    IF cache[c] # None THEN "available"
    ELSE IF \E i \in 1..Len(loadLog[t]) :
               /\ loadLog[t][i].cap = c
               /\ ~loadLog[t][i].ok
               /\ OnLoadFailure(c, loadLog[t][i].src) = "assign_none"
         THEN "unavailable"
         ELSE sticky[c]

\* The framework hands the next request to the function.
Receive(t) ==
    /\ pc[t] \in {"idle", "responded"}
    /\ \E r \in Requests : req' = [req EXCEPT ![t] = r]
    /\ sticky' = [c \in Caps |-> Recorded(t, c)]
    /\ pc' = [pc EXCEPT ![t] = "auth"]
    /\ cap' = [cap EXCEPT ![t] = 1]
    /\ src' = [src EXCEPT ![t] = "primary"]
    /\ tmp' = [tmp EXCEPT ![t] = None]
    /\ loadLog' = [loadLog EXCEPT ![t] = <<>>]
    /\ models' = [models EXCEPT ![t] = [c \in Caps |-> None]]
    /\ text' = [text EXCEPT ![t] = <<>>]
    /\ result' = [result EXCEPT ![t] = <<>>]
    /\ calls' = [calls EXCEPT ![t] = <<>>]
    /\ exc' = [exc EXCEPT ![t] = "none"]
    /\ resp' = [resp EXCEPT ![t] = NoResponse]
    /\ transcribed' = [transcribed EXCEPT ![t] = <<>>]
    /\ verified' = [verified EXCEPT ![t] = <<>>]
    /\ UNCHANGED <<deployment, mounted, cache, succLoads, tgVars, fnVars>>

\* A handler that logs the verifier's exception and goes on.
OnRejected_GoesOn(t, kind) == Goto(t, "input")

\* auth.verify_id_token raised.  main has no try around the verifier, so
\* its exception reaches the handlers at the end of nlp_analyze; gcf answers
\* 401 in the except clause around it.
OnRejected(t, kind) ==
    IF deployment = "main"
    THEN Raise(t, IF kind = "rejected_value" THEN "ValueError" ELSE "Exception")
    ELSE Reply(t, 401, [success |-> FALSE, error |-> "Invalid authentication token"])

\* nlp_analyze up to the verified token: the CORS preflight, the header
\* check and auth.verify_id_token.
Authenticate(t) ==
    /\ pc[t] = "auth"
    /\ LET r == req[t] IN
        CASE r.method = "OPTIONS" ->
               Reply(t, IF deployment = "main" THEN 204 ELSE 200, <<>>)
          [] r.method # "OPTIONS" /\ r.auth \in {"missing", "badscheme"} ->
               Reply(t, 401,
                     IF deployment = "main"
                     THEN [error |-> "Unauthorized"]
                     ELSE [success |-> FALSE,
                           error |-> "Missing or invalid Authorization header"])
          [] r.method # "OPTIONS" /\ r.auth \in {"rejected_value", "rejected"} ->
               OnRejected(t, r.auth)
          [] OTHER -> Goto(t, "input")
    /\ verified' =
          IF req[t].method # "OPTIONS" /\ req[t].auth \notin {"missing", "badscheme"}
          THEN [verified EXCEPT ![t] = Append(@, req[t].auth = "valid")]
          ELSE verified
    /\ UNCHANGED <<deployment, mounted, cache, succLoads, sticky, cap, src, tmp,
                   loadLog, models, req, text, result, calls, transcribed,
                   tgVars, fnVars>>

\* nlp_analyze from the body to the choice between transcription and
\* analysis.
ReadInput(t) ==
    /\ pc[t] = "input"
    /\ LET r == req[t]
           transcription == Strip(r.text)
           audio == Strip(r.audio)
       IN
        IF ~r.json
        THEN /\ Reply(t, 400,
                      IF deployment = "main"
                      THEN [error |-> "JSON required"]
                      ELSE [success |-> FALSE, error |-> "No JSON data provided"])
             /\ text' = text
        ELSE IF deployment = "main"
        THEN /\ text' = [text EXCEPT ![t] = transcription]
             /\ IF audio # <<>> THEN Goto(t, "transcribe")
                ELSE IF transcription # <<>> THEN Goto(t, "analyze")
                ELSE Reply(t, 400, [error |-> "No text provided and no audio to transcribe"])
        ELSE /\ text' = [text EXCEPT ![t] = transcription]
             /\ IF transcription = <<>> /\ audio = <<>>
                THEN Reply(t, 400, [success |-> FALSE,
                                    error |-> "No transcription or audio URL provided"])
                ELSE Goto(t, "analyze")
    /\ UNCHANGED <<deployment, mounted, cache, succLoads, sticky, cap, src, tmp,
                   loadLog, models, req, result, calls, transcribed,
                   verified, tgVars, fnVars>>

\* The transcription calls made so far for thread t's request, with one
\* more: whether it raised and the transcript it returned.
Heard(t, raised, transcript) ==
    [transcribed EXCEPT ![t] =
        Append(@, [raised |-> raised, transcript |-> transcript])]

\* The provider behaviours a request of the service meets.
ProviderCases ==
    { b \in Behaviours : b.wait /\ b.results \in { <<>>, << << <<"w">> >> >> } }

\* main, `if audio_uri:`: the transcript replaces the text of the request.
Transcribe(t) ==
    /\ pc[t] = "transcribe"
    /\ \E p \in ProviderCases, f \in ProviderCases :
        LET o == transcribe_gcs(p, f) IN
        /\ transcribed' = Heard(t, o.raised, o.transcript)
        /\ IF o.raised
           THEN /\ Reply(t, 500, [error |-> "Transcription failed: EXCEPTION_TEXT"])
                /\ UNCHANGED <<text, result>>
           ELSE /\ text' = [text EXCEPT ![t] = o.transcript]
                /\ result' = [result EXCEPT ![t] = Put(@, "transcription", o.transcript)]
                /\ IF o.transcript = <<>>
                   THEN Reply(t, 200, [transcription |-> o.transcript, success |-> FALSE,
                                       error |-> "Transcription yielded no text"])
                   ELSE Goto(t, "analyze")
    /\ UNCHANGED <<deployment, mounted, cache, succLoads, sticky, cap, src, tmp,
                   loadLog, models, req, calls, verified, tgVars, fnVars>>

\* The handlers at the end of nlp_analyze.
ErrorResponse(t) ==
    /\ pc[t] = "raised"
    /\ IF exc[t] = "ValueError"
       THEN Reply(t, 400, IF deployment = "main"
                          THEN [error |-> ExcText]
                          ELSE [success |-> FALSE, error |-> ExcText])
       ELSE Reply(t, 500, IF deployment = "main"
                          THEN [error |-> "Internal server error"]
                          ELSE [success |-> FALSE, error |-> "Internal server error"])
    /\ UNCHANGED <<deployment, mounted, cache, succLoads, sticky, cap, src, tmp,
                   loadLog, models, req, text, result, calls, transcribed,
                   verified, tgVars, fnVars>>

\* result['user_id'] = uid and the 200 response.
Respond(t) ==
    /\ pc[t] = "analyzed"
    /\ Reply(t, 200, Put(result[t], "user_id", Uid))
    /\ UNCHANGED <<deployment, mounted, cache, succLoads, sticky, cap, src, tmp,
                   loadLog, models, req, text, result, calls, transcribed,
                   verified, tgVars, fnVars>>

\* -------------------------------------------------- analyze_transcription

\* gcf: the result dict analyze_transcription starts from.
GcfDefaults ==
    [success |-> FALSE, sentiment |-> "neutral", entities |-> <<>>, pos |-> {},
     topics |-> [primary |-> "general", scores |-> {}],
     word_count |-> 0, sentence_count |-> 0, char_count |-> 0, errors |-> <<>>]

\* main: the values the result is built from when a stage has not run.
MainDefaults ==
    [sentiment |-> [label |-> "neutral", score |-> 0], entities |-> <<>>,
     pos |-> {}, topics |-> [primary |-> "unavailable", scores |-> {}]]

\* The name of the result's field that stage c fills.
Field(c) ==
    CASE c = "ner" -> "entities"
      [] c = "topic" -> "topics"
      [] c = "flagged" -> "flagged_words"
      [] OTHER -> c

\* What a predict call that returns puts in the stage's field.
Predicted(c) ==
    CASE c = "sentiment" ->
           IF deployment = "main" THEN [label |-> "POSITIVE", score |-> 1]
                                  ELSE "POSITIVE"
      [] c = "ner" -> << [text |-> "w", label |-> "PER", score |-> 1] >>
      [] c = "pos" -> { <<"NN", 1>> }
      [] OTHER -> [primary |-> "health", scores |-> { <<"health", 1>> }]

\* The tag of a stage in the errors list.
Tag(c) ==
    CASE c = "sentiment" -> "Sentiment failed"
      [] c = "ner" -> "NER failed"
      [] c = "pos" -> "POS failed"
      [] c = "topic" -> "Topic failed"
      [] OTHER -> "Flagged words failed"

\* gcf: char_count, word_count and sentence_count of the cleaned text.
WithStats(r, clean) ==
    Put(Put(Put(r, "char_count", Len(clean)), "word_count", WordCount(clean)),
        "sentence_count", SentenceCount(clean))

\* gcf: the ValueErrors analyze_transcription raises for itself, as the
\* outer handler words them.
InvalidInput == "Critical error: Invalid transcription input"

EmptyAfterCleaning == "Critical error: Empty transcription after cleaning"

NoTextAvailable ==
    "Critical error: No transcription text available and audio transcription failed"

CriticalErrors == {InvalidInput, EmptyAfterCleaning, NoTextAvailable}

\* gcf: the outer `except Exception` of analyze_transcription.
CriticalError(r, msg) == AddError(r, msg)

\* What transcribe_audio does for the caller: it raises, or it returns the
\* stripped text of the provider's response.
AudioOutcomes ==
    { [raised |-> TRUE, text |-> <<>>], [raised |-> FALSE, text |-> <<>>],
      [raised |-> FALSE, text |-> <<"w">>] }

\* gcf, from `# Input validation` to the statistics.
GcfValidate(t, r, transcription) ==
    LET clean == Fix(Strip(transcription)) IN
    IF transcription = <<>>
    THEN /\ result' = [result EXCEPT ![t] = CriticalError(r, InvalidInput)]
         /\ text' = text
         /\ Goto(t, "analyzed")
    ELSE IF clean = <<>>
    THEN /\ result' = [result EXCEPT ![t] = CriticalError(r, EmptyAfterCleaning)]
         /\ text' = text
         /\ Goto(t, "analyzed")
    ELSE /\ result' = [result EXCEPT ![t] = WithStats(r, clean)]
         /\ text' = [text EXCEPT ![t] = clean]
         /\ Goto(t, "gm_check")

\* analyze_transcription up to the get_models call.  gcf transcribes the
\* audio first when it was given no text.
AnalyzeStart(t) ==
    /\ pc[t] = "analyze"
    /\ IF deployment = "main"
       THEN LET clean == Fix(Strip(text[t])) IN
            /\ result' = result
            /\ transcribed' = transcribed
            /\ IF text[t] = <<>> \/ clean = <<>>
               THEN Raise(t, "ValueError") /\ text' = text
               ELSE Goto(t, "gm_check") /\ text' = [text EXCEPT ![t] = clean]
       ELSE IF Strip(text[t]) = <<>> /\ Strip(req[t].audio) # <<>>
            THEN \E o \in AudioOutcomes :
                    /\ transcribed' = Heard(t, o.raised, o.text)
                    /\ IF o.raised
                       THEN /\ result' = [result EXCEPT ![t] = CriticalError(
                                   AddError(GcfDefaults, "Audio transcription failed"),
                                   NoTextAvailable)]
                            /\ text' = text
                            /\ Goto(t, "analyzed")
                       ELSE GcfValidate(t, GcfDefaults, o.text)
            ELSE /\ GcfValidate(t, GcfDefaults, text[t])
                 /\ transcribed' = transcribed
    /\ UNCHANGED <<deployment, mounted, cache, succLoads, sticky, cap, src, tmp,
                   loadLog, models, req, calls, verified, tgVars, fnVars>>

\* A handler that records the failed load and forgets `success = True`.
ModelLoadingFailed_NoSuccess(r) == AddError(r, "Model loading failed")

\* gcf: the `except Exception as model_error` around get_models.
ModelLoadingFailed(r) == Put(AddError(r, "Model loading failed"), "success", TRUE)

\* get_models raised.  gcf returns the partial result; main re-raises.
ModelsFailed(t) ==
    /\ pc[t] = "gm_raised"
    /\ IF deployment = "main"
       THEN /\ \E k \in ExcKinds : Raise(t, k)
            /\ result' = result
       ELSE /\ result' = [result EXCEPT ![t] = ModelLoadingFailed(@)]
            /\ Goto(t, "analyzed")
    /\ UNCHANGED <<deployment, mounted, cache, succLoads, sticky, cap, src, tmp,
                   loadLog, models, req, text, calls, transcribed,
                   verified, tgVars, fnVars>>

\* The outcomes of stage c's predict: with no handle the call raises.
PredictOutcomes(t, c) == IF models[t][c] = None THEN {FALSE} ELSE BOOLEAN

\* The stages run so far, with stage c: whether its predict was called (it
\* is not when there is no handle to call it on) and whether it returned.
Ran(t, c, called, ok) ==
    [calls EXCEPT ![t] = Append(@, [stage |-> c, called |-> called, ok |-> ok])]

\* A stage that assigns its field before the call that may raise.
GcfStage_AssignsFirst(r, c, ok) ==
    IF ok THEN Put(r, Field(c), Predicted(c))
    ELSE AddError(Put(r, Field(c), Predicted(c)), Tag(c))

\* gcf: one `try: ... except Exception as e: errors.append(...)` stage.
GcfStage(r, c, ok) ==
    IF ok THEN Put(r, Field(c), Predicted(c)) ELSE AddError(r, Tag(c))

\* main: whether an exception of stage c's predict leaves analyze_transcription.
\* Only the POS and the topic call are inside a try.
Propagates(c) == c \in {"sentiment", "ner"}

\* main: what stage c contributes to the result.
MainStage(r, c, ok) ==
    IF ok THEN Put(r, Field(c), Predicted(c)) ELSE Put(r, Field(c), MainDefaults[Field(c)])

\* One of the four inference stages, at position p, followed by position q.
Stage(t, c, p, q) ==
    /\ pc[t] = p
    /\ IF deployment = "main"
       THEN IF models[t][c] = None /\ ~Propagates(c)
            THEN /\ result' = [result EXCEPT ![t] = MainStage(@, c, FALSE)]
                 /\ calls' = Ran(t, c, FALSE, FALSE)
                 /\ Goto(t, q)
            ELSE \E ok \in PredictOutcomes(t, c) :
                    /\ calls' = Ran(t, c, models[t][c] # None, ok)
                    /\ IF ~ok /\ Propagates(c)
                       THEN /\ \E k \in ExcKinds : Raise(t, k)
                            /\ result' = result
                       ELSE /\ result' = [result EXCEPT ![t] = MainStage(@, c, ok)]
                            /\ Goto(t, q)
       ELSE \E ok \in PredictOutcomes(t, c) :
               /\ calls' = Ran(t, c, models[t][c] # None, ok)
               /\ result' = [result EXCEPT ![t] = GcfStage(@, c, ok)]
               /\ Goto(t, q)
    /\ UNCHANGED <<deployment, mounted, cache, succLoads, sticky, cap, src, tmp,
                   loadLog, models, req, text, transcribed,
                   verified, tgVars, fnVars>>

Sentiment(t) == Stage(t, "sentiment", "gm_returned", "ner")

Ner(t) == Stage(t, "ner", "ner", "pos")

Pos(t) == Stage(t, "pos", "pos", "topic")

Topic(t) == Stage(t, "topic", "topic", "finish")

\* gcf: the flagged-words stage.  The texts of Texts hold no word of more
\* than two characters, so the list detect_flagged_words_server returns is
\* empty.
FlaggedStage(r, ok) ==
    IF ok THEN Put(r, "flagged_words", <<>>)
    ELSE Put(AddError(r, Tag("flagged")), "flagged_words", <<>>)

\* The end of analyze_transcription.  gcf: flagged words, then success.
\* main: the returned dict, merged into the result of nlp_analyze.
Finish(t) ==
    /\ pc[t] = "finish"
    /\ IF deployment = "main"
       THEN /\ result' = [result EXCEPT ![t] =
               Put(Put(@, "success", TRUE), "stats",
                   [words |-> TokenCount(text[t]),
                    sentences |-> SentenceCount(text[t]),
                    chars |-> Len(text[t])])]
            /\ calls' = calls
       ELSE \E ok \in BOOLEAN :
            /\ result' = [result EXCEPT ![t] = Put(FlaggedStage(@, ok), "success", TRUE)]
            /\ calls' = Ran(t, "flagged", TRUE, ok)
    /\ Goto(t, "analyzed")
    /\ UNCHANGED <<deployment, mounted, cache, succLoads, sticky, cap, src, tmp,
                   loadLog, models, req, text, transcribed,
                   verified, tgVars, fnVars>>

\* ------------------------------------------------------- transcribe_audio

\* The number of transcribe_audio calls a run of the model makes.
MaxAudioCalls == 3

\* The texts the provider answers with.
WhisperTexts == { <<>>, <<"w">>, <<" ", "w", " ">> }

\* No call yet: no temporary file of the process exists.
NoAudioCall ==
    [pc |-> "idle", calls |-> 0, file |-> FALSE, left |-> 0, status |-> 0,
     body |-> <<>>, out |-> <<>>]

\* The temporary files of the process that exist.
TempFiles == ta.left + (IF ta.file THEN 1 ELSE 0)

TaUnchanged ==
    UNCHANGED <<deployment, mounted, cache, succLoads, sticky, pc, cap, src,
                tmp, loadLog, models, reqVars, tgVars, uriIn, uriOut, fwIn,
                fwOut, health>>

\* analyze_transcription calls transcribe_audio(audio_url).
TaCall ==
    /\ ta.pc \in {"idle", "returned", "raised"}
    /\ ta.calls < MaxAudioCalls
    /\ ta' = [pc |-> "key", calls |-> ta.calls + 1, file |-> FALSE,
              left |-> TempFiles, status |-> 0, body |-> <<>>, out |-> <<>>]
    /\ TaUnchanged

\* os.environ.get('OPENAI_API_KEY'): without a key the call raises.
TaKey ==
    /\ ta.pc = "key"
    /\ \E set \in BOOLEAN :
          ta' = [ta EXCEPT !.pc = IF set THEN "download" ELSE "raised"]
    /\ TaUnchanged

\* requests.get(audio_url, timeout=60) and raise_for_status().
TaDownload ==
    /\ ta.pc = "download"
    /\ \E ok \in BOOLEAN :
          ta' = [ta EXCEPT !.pc = IF ok THEN "create" ELSE "raised"]
    /\ TaUnchanged

\* tempfile.NamedTemporaryFile(suffix='.webm', delete=False) and the write:
\* the file exists from here on, whether or not the write raises.
TaCreate ==
    /\ ta.pc = "create"
    /\ \E written \in BOOLEAN :
          ta' = [ta EXCEPT !.file = TRUE,
                           !.pc = IF written THEN "post" ELSE "raised"]
    /\ TaUnchanged

\* requests.post(..., timeout=120): it raises (a timeout, a connection
\* error) or returns a response with a status and a text.
TaPost ==
    /\ ta.pc = "post"
    /\ \/ ta' = [ta EXCEPT !.pc = "raised"]
       \/ \E st \in {200, 500}, body \in WhisperTexts :
             ta' = [ta EXCEPT !.pc = "unlink", !.status = st, !.body = body]
    /\ TaUnchanged

\* os.unlink(temp_file_path)
TaUnlink ==
    /\ ta.pc = "unlink"
    /\ ta' = [ta EXCEPT !.file = FALSE, !.pc = "status"]
    /\ TaUnchanged

\* `if whisper_response.status_code == 200:` returns the stripped text, the
\* else branch raises.
TaStatus ==
    /\ ta.pc = "status"
    /\ ta' = IF ta.status = 200
             THEN [ta EXCEPT !.pc = "returned", !.out = Strip(ta.body)]
             ELSE [ta EXCEPT !.pc = "raised"]
    /\ TaUnchanged

\* ----------------------------------------------------------- health_check

NoHealth == [status |-> "none", service |-> "none", models_loaded |-> FALSE]

\* The body health_check returns.
health_check ==
    [status |-> "healthy", service |-> "nlp_processor_gcf",
     models_loaded |-> cache["sentiment"] # None]

\* gcf: GET /health, served at any time.
Health ==
    /\ deployment = "gcf"
    /\ health' = health_check
    /\ UNCHANGED <<deployment, mounted, cache, succLoads, sticky, pc, cap, src,
                   tmp, loadLog, models, reqVars, tgVars, uriIn, uriOut, fwIn,
                   fwOut, ta>>

\* -------------------------------------------- detect_flagged_words_server

\* The text the function is called with is written as runs: a
\* whitespace-separated token and the number of times it is repeated.
MaxRuns == 3

\* The tokens of the texts: words of the lexicon (one of them capitalised and
\* followed by punctuation), two words outside it and a one-letter word.
RawWords == {"Damn!", "kill", "help", "pain", "foo", "bar", "a"}

\* ''.join(c for c in word if c.isalnum()).lower()
CleanWord(w) == IF w = "Damn!" THEN "damn" ELSE w

\* len(clean_word) of the tokens above.
WordLen(w) == IF w = "a" THEN 1 ELSE IF w \in {"foo", "bar"} THEN 3 ELSE 4

\* A token written once, four times or 76 times.
Runs ==
    [word : RawWords, times : {1}]
        \cup [word : {"kill", "foo", "a"}, times : {4}]
        \cup [word : {"a", "bar"}, times : {76}]

RECURSIVE RunLists(_)
\* The texts of at most n runs.
RunLists(n) ==
    IF n = 0 THEN { <<>> }
    ELSE RunLists(n - 1) \cup
         { Append(l, r) : l \in { x \in RunLists(n - 1) : Len(x) = n - 1 }, r \in Runs }

FlaggedTexts == RunLists(MaxRuns)

\* len(text.lower().split())
RECURSIVE Tokens(_)
Tokens(runs) ==
    IF runs = <<>> THEN 0 ELSE Head(runs).times + Tokens(Tail(runs))

\* The position of word w in the list of entries l, or 0.
RECURSIVE IndexOf(_, _, _)
IndexOf(l, w, i) ==
    IF i > Len(l) THEN 0 ELSE IF l[i].word = w THEN i ELSE IndexOf(l, w, i + 1)

\* word_count after the counting loop: a dict, so the words in the order in
\* which they were first met, each with its count.
RECURSIVE CountFrom(_, _)
CountFrom(runs, word_count) ==
    IF runs = <<>> THEN word_count
    ELSE LET w == CleanWord(Head(runs).word)
             n == Head(runs).times
             i == IndexOf(word_count, w, 1)
         IN IF WordLen(w) <= 2 THEN CountFrom(Tail(runs), word_count)
            ELSE IF i = 0
            THEN CountFrom(Tail(runs), Append(word_count, [word |-> w, count |-> n]))
            ELSE CountFrom(Tail(runs),
                           [word_count EXCEPT ![i].count = @ + n])

WordCounts(runs) == CountFrom(runs, <<>>)

\* flagged_categories, in the order of the dict, with some words of each list.
flagged_categories ==
    << [category |-> "profanity", word_list |-> <<"damn", "hell">>],
       [category |-> "sensitive", word_list |-> <<"kill", "death">>],
       [category |-> "urgency", word_list |-> <<"emergency", "help">>],
       [category |-> "medical", word_list |-> <<"pain", "hurt">>],
       [category |-> "positive", word_list |-> <<"happy", "good">>] >>

\* The severity the lexicon pass gives a category.
SeverityOf(category) ==
    IF category \in {"profanity", "sensitive"} THEN "high"
    ELSE IF category = "urgency" THEN "medium" ELSE "low"

\* The entries the inner loop appends for one category.
RECURSIVE CheckList(_, _, _, _)
CheckList(category, word_list, word_count, flagged_words) ==
    IF word_list = <<>> THEN flagged_words
    ELSE LET i == IndexOf(word_count, Head(word_list), 1) IN
         CheckList(category, Tail(word_list), word_count,
                   IF i = 0 THEN flagged_words
                   ELSE Append(flagged_words,
                               [word |-> Head(word_list), category |-> category,
                                frequency |-> word_count[i].count,
                                severity |-> SeverityOf(category)]))

\* The loop over flagged_categories.items().
RECURSIVE LexiconPass(_, _, _)
LexiconPass(categories, word_count, flagged_words) ==
    IF categories = <<>> THEN flagged_words
    ELSE LexiconPass(Tail(categories), word_count,
                     CheckList(Head(categories).category, Head(categories).word_list,
                               word_count, flagged_words))

\* total_words = sum(word_count.values())
RECURSIVE TotalWords(_)
TotalWords(word_count) ==
    IF word_count = <<>> THEN 0 ELSE Head(word_count).count + TotalWords(Tail(word_count))

\* `count / total_words > 0.05`.  For totals below 10^16 the float quotient
\* exceeds the float 0.05 exactly when 20 * count > total_words.
Frequent(count, total_words) == 20 * count > total_words

\* A repetition loop that does not look for the word among the entries of
\* the lexicon pass.
RECURSIVE RepetitionPass_NoLookup(_, _, _)
RepetitionPass_NoLookup(items, total_words, flagged_words) ==
    IF items = <<>> THEN flagged_words
    ELSE LET e == Head(items) IN
         RepetitionPass_NoLookup(Tail(items), total_words,
             IF Frequent(e.count, total_words) /\ e.count > 3
             THEN Append(flagged_words,
                         [word |-> e.word, category |-> "repetitive",
                          frequency |-> e.count, severity |-> "low"])
             ELSE flagged_words)

\* The loop over word_count.items() that adds the repeated words.
RECURSIVE RepetitionPass(_, _, _)
RepetitionPass(items, total_words, flagged_words) ==
    IF items = <<>> THEN flagged_words
    ELSE LET e == Head(items) IN
         RepetitionPass(Tail(items), total_words,
             IF /\ Frequent(e.count, total_words)
                /\ e.count > 3
                /\ IndexOf(flagged_words, e.word, 1) = 0
             THEN Append(flagged_words,
                         [word |-> e.word, category |-> "repetitive",
                          frequency |-> e.count, severity |-> "low"])
             ELSE flagged_words)

severity_order == [high |-> 3, medium |-> 2, low |-> 1]

RECURSIVE Reverse(_)
Reverse(l) == IF l = <<>> THEN <<>> ELSE Append(Reverse(Tail(l)), Head(l))

\* e put into the list l, sorted by ascending key, after the entries whose
\* key is not greater.
RECURSIVE Insert(_, _)
Insert(l, e) ==
    IF l = <<>> THEN << e >>
    ELSE IF severity_order[Head(l).severity] <= severity_order[e.severity]
         THEN << Head(l) >> \o Insert(Tail(l), e)
         ELSE << e >> \o l

\* A stable sort by ascending key.
RECURSIVE SortAscending(_)
SortAscending(l) ==
    IF l = <<>> THEN <<>>
    ELSE Insert(SortAscending(SubSeq(l, 1, Len(l) - 1)), l[Len(l)])

\* A descending sort that sorts ascending and reverses the outcome.
SortBySeverity_ReversedTies(l) == Reverse(SortAscending(l))

\* flagged_words.sort(key=..., reverse=True): list.sort reverses the list,
\* sorts it stably by ascending key and reverses it again.
SortBySeverity(l) == Reverse(SortAscending(Reverse(l)))

\* detect_flagged_words_server(text)
detect_flagged_words_server(runs) ==
    LET word_count == WordCounts(runs)
        lexicon == LexiconPass(flagged_categories, word_count, <<>>)
    IN SortBySeverity(RepetitionPass(word_count, TotalWords(word_count), lexicon))

NotFlagged == << [word |-> "not called", category |-> "", frequency |-> 0,
                  severity |-> ""] >>

\* One call of detect_flagged_words_server.
FwCall ==
    /\ fwOut = NotFlagged
    /\ fwOut' = detect_flagged_words_server(fwIn)
    /\ UNCHANGED <<deployment, mounted, cache, succLoads, sticky, pc, cap, src,
                   tmp, loadLog, models, reqVars, tgVars, uriIn, uriOut, fwIn,
                   ta, health>>

\* ---------------------------------------------------------- specifications

Idle ==
    /\ cache = [c \in Caps |-> None]
    /\ succLoads = [c \in Caps |-> 0]
    /\ sticky = [c \in Caps |-> "none"]
    /\ cap = [t \in Threads |-> 1]
    /\ src = [t \in Threads |-> "primary"]
    /\ tmp = [t \in Threads |-> None]
    /\ loadLog = [t \in Threads |-> <<>>]
    /\ models = [t \in Threads |-> [c \in Caps |-> None]]
    /\ req = [t \in Threads |-> NoRequest]
    /\ text = [t \in Threads |-> <<>>]
    /\ result = [t \in Threads |-> <<>>]
    /\ calls = [t \in Threads |-> <<>>]
    /\ exc = [t \in Threads |-> "none"]
    /\ resp = [t \in Threads |-> NoResponse]
    /\ transcribed = [t \in Threads |-> <<>>]
    /\ verified = [t \in Threads |-> <<>>]
    /\ tgOut = NotCalled
    /\ uriOut = NotConverted
    /\ fwOut = NotFlagged
    /\ ta = NoAudioCall
    /\ health = NoHealth

\* The process after import: no model loaded, no request yet.
Deployed ==
    /\ deployment \in Deployments
    /\ mounted \in (IF deployment = "main" THEN [Caps -> BOOLEAN]
                                          ELSE {[c \in Caps |-> FALSE]})

NoProvider == [submit |-> FALSE, wait |-> FALSE, results |-> <<>>]

Init ==
    /\ Deployed
    /\ Idle
    /\ pc = [t \in Threads |-> "idle"]
    /\ tgIn = [primary |-> NoProvider, fallback |-> NoProvider]
    /\ uriIn = <<>>
    /\ fwIn = <<>>

\* Requests handled one after the other by thread 1.
Next ==
    \/ Receive(1) \/ Authenticate(1) \/ ReadInput(1) \/ Transcribe(1)
    \/ AnalyzeStart(1)
    \/ GmCheck(1) \/ GmLoad(1) \/ GmStore(1) \/ GmReturn(1)
    \/ ModelsFailed(1)
    \/ Sentiment(1) \/ Ner(1) \/ Pos(1) \/ Topic(1) \/ Finish(1)
    \/ Respond(1) \/ ErrorResponse(1)
    \/ Health

Spec == Init /\ [][Next]_vars

\* Two first requests that have both reached get_models, cache empty.
InitRace ==
    /\ Deployed
    /\ Idle
    /\ pc = [t \in Threads |-> "gm_check"]
    /\ tgIn = [primary |-> NoProvider, fallback |-> NoProvider]
    /\ uriIn = <<>>
    /\ fwIn = <<>>

NextRace == \E t \in Threads : GmCheck(t) \/ GmLoad(t) \/ GmStore(t) \/ GmReturn(t)

SpecRace == InitRace /\ [][NextRace]_vars

\* transcribe_gcs against every provider behaviour.
InitTg ==
    /\ deployment = "main"
    /\ mounted = [c \in Caps |-> FALSE]
    /\ Idle
    /\ pc = [t \in Threads |-> "idle"]
    /\ tgIn \in [primary : Behaviours, fallback : Behaviours]
    /\ uriIn = <<>>
    /\ fwIn = <<>>

NextTg == TgCall

SpecTg == InitTg /\ [][NextTg]_vars

\* Requests handled one after the other, with every step of the function
\* taken in the end, save the calls that wait for a model load or a predict
\* to return: nothing in the code bounds those.
SpecLive ==
    /\ Init /\ [][Next]_vars
    /\ WF_vars(Authenticate(1)) /\ WF_vars(ReadInput(1)) /\ WF_vars(Transcribe(1))
    /\ WF_vars(AnalyzeStart(1))
    /\ WF_vars(GmCheck(1)) /\ WF_vars(GmStore(1)) /\ WF_vars(GmReturn(1))
    /\ WF_vars(ModelsFailed(1)) /\ WF_vars(Finish(1))
    /\ WF_vars(Respond(1)) /\ WF_vars(ErrorResponse(1))

\* transcribe_audio called MaxAudioCalls times in one process.
InitTa ==
    /\ deployment = "gcf"
    /\ mounted = [c \in Caps |-> FALSE]
    /\ Idle
    /\ pc = [t \in Threads |-> "idle"]
    /\ tgIn = [primary |-> NoProvider, fallback |-> NoProvider]
    /\ uriIn = <<>>
    /\ fwIn = <<>>

NextTa == TaCall \/ TaKey \/ TaDownload \/ TaCreate \/ TaPost \/ TaUnlink \/ TaStatus

SpecTa == InitTa /\ [][NextTa]_vars

\* convert_to_gs_uri called with every reference of Urls.
InitUri ==
    /\ deployment = "main"
    /\ mounted = [c \in Caps |-> FALSE]
    /\ Idle
    /\ pc = [t \in Threads |-> "idle"]
    /\ tgIn = [primary |-> NoProvider, fallback |-> NoProvider]
    /\ uriIn \in Urls
    /\ fwIn = <<>>

NextUri == UriCall

SpecUri == InitUri /\ [][NextUri]_vars

\* detect_flagged_words_server called with every text of FlaggedTexts.
InitFw ==
    /\ deployment = "gcf"
    /\ mounted = [c \in Caps |-> FALSE]
    /\ Idle
    /\ pc = [t \in Threads |-> "idle"]
    /\ tgIn = [primary |-> NoProvider, fallback |-> NoProvider]
    /\ uriIn = <<>>
    /\ fwIn \in FlaggedTexts

NextFw == FwCall

SpecFw == InitFw /\ [][NextFw]_vars


\* ----------------------------------------------------------------- claims

\* The number of entries of seq equal to x.
Count(seq, x) == Cardinality({ i \in 1..Len(seq) : seq[i] = x })

\* Stage c was run for thread t's request and did not complete.
StageFailed(t, c) ==
    \E i \in 1..Len(calls[t]) : calls[t][i].stage = c /\ ~calls[t][i].ok

\* A load call for capability c failed in thread t's request.
LoadFailed(t, c) ==
    \E i \in 1..Len(loadLog[t]) : loadLog[t][i].cap = c /\ ~loadLog[t][i].ok

\* A load call for capability c was made in thread t's request.
LoadTried(t, c) ==
    \E i \in 1..Len(loadLog[t]) : loadLog[t][i].cap = c

\* gcf: the statistics of the cleaned text are in thread t's result.
StatsComputed(t) ==
    /\ text[t] # <<>>
    /\ result[t]["char_count"] = Len(text[t])
    /\ result[t]["word_count"] = WordCount(text[t])
    /\ result[t]["sentence_count"] = SentenceCount(text[t])

\* C1: in the gcf deployment the result analyze_transcription returns has
\* success = true exactly when the text was normalized and its statistics
\* computed, whatever failed afterwards (model loading, any stage).
C1_SuccessIffStatistics ==
    (deployment = "gcf" /\ pc[1] = "analyzed") =>
        (result[1]["success"] <=> StatsComputed(1))

\* C1 witness: statistics computed, the four stages and the flagged-words
\* stage all failed, and the result still says success.
C1_Witness ==
    /\ deployment = "gcf"
    /\ pc[1] = "analyzed"
    /\ StatsComputed(1)
    /\ Len(result[1]["errors"]) = 5
    /\ result[1]["success"]

\* C2 (as claimed): in both deployments a predict call that raises is caught
\* inside analyze_transcription: nothing propagates, the other stages are
\* still run and the request is answered with an analysis result.
C2_Claim ==
    \A i \in 1..Len(calls[1]) :
        (calls[1][i].stage \in Caps /\ calls[1][i].called /\ ~calls[1][i].ok) =>
            /\ pc[1] # "raised"
            /\ pc[1] = "responded" =>
                  /\ resp[1].status = 200
                  /\ \A c \in Caps : \E j \in 1..Len(calls[1]) : calls[1][j].stage = c

\* Every load call of thread t's request failed and no handle is cached.
NoneAcquired(t) ==
    /\ loadLog[t] # <<>>
    /\ \A i \in 1..Len(loadLog[t]) : ~loadLog[t][i].ok
    /\ \A c \in Caps : cache[c] = None

\* C3 (as claimed): valid text and no capability acquired gives a response
\* with success = true, four errors (one per stage) and every stage's field
\* at its default.
C3_Claim ==
    (pc[1] = "responded" /\ NoneAcquired(1)) =>
        /\ resp[1].status = 200
        /\ resp[1].body["success"] = TRUE
        /\ Len(resp[1].body["errors"]) = 4
        /\ resp[1].body["sentiment"] = "neutral"
        /\ resp[1].body["entities"] = <<>>
        /\ resp[1].body["pos"] = {}
        /\ resp[1].body["topics"].primary \in {"general", "unavailable"}

\* C4 (as claimed): when get_models ends, every capability that has no
\* handle has had its load attempted in this call, whichever other load
\* failed.
C4_Claim ==
    pc[1] \in {"gm_returned", "gm_raised"} =>
        \A c \in Caps : cache[c] = None => LoadTried(1, c)

\* C5 (as claimed): a capability that an earlier request left recorded as
\* available, or as unavailable after its download failed, is never loaded
\* again: no later load call is for it.
C5_Claim ==
    [][\A c \in Caps :
          sticky[c] # "none" =>
              ~(/\ Len(loadLog'[1]) > Len(loadLog[1])
                /\ loadLog'[1][Len(loadLog'[1])].cap = c)]_vars

\* C6 (as claimed): with requests handled one after the other, the load of
\* each capability completes successfully at most once, and a cached handle
\* is never replaced.
C6_Claim ==
    [][\A c \in Caps :
          /\ succLoads'[c] <= 1
          /\ cache[c] # None => cache'[c] = cache[c]]_vars

\* C7 (as claimed): two first requests racing through get_models get only
\* handles a load call returned (or None), and once both are through the
\* cache holds such a handle for every capability a load call returned one
\* for.
C7_Claim ==
    /\ \A t \in Threads : pc[t] = "gm_returned" =>
          \A c \in Caps : models[t][c] \in 0..succLoads[c]
    /\ (\A t \in Threads : pc[t] \in {"gm_returned", "gm_raised"}) =>
          \A c \in Caps : succLoads[c] > 0 => cache[c] \in 1..succLoads[c]

\* The primary attempt raises: at the submission, while waiting (an error
\* or the timeout), or while reading a segment that has no alternative.
AttemptRaises(b) ==
    \/ ~b.submit
    \/ ~b.wait
    \/ \E i \in 1..Len(b.results) : Len(b.results[i]) = 0

C9_Claim ==
    (/\ deployment = "main"
     /\ LoadFailed(1, "pos") \/ LoadFailed(1, "topic")
     /\ \A c \in Caps : ~StageFailed(1, c) \/ ~Propagates(c)) =>
        /\ pc[1] \notin {"gm_raised", "raised"}
        /\ pc[1] = "responded" =>
              /\ resp[1].status = 200
              /\ resp[1].body["success"] = TRUE
              /\ LoadFailed(1, "pos") => resp[1].body["pos"] = {}
              /\ LoadFailed(1, "topic") =>
                    resp[1].body["topics"] = [primary |-> "unavailable", scores |-> {}]
              /\ {"sentiment", "entities"} \subseteq DOMAIN resp[1].body

\* gcf: the value stage c's field starts with.
DefaultOf(c) == IF c = "flagged" THEN <<>> ELSE GcfDefaults[Field(c)]

\* C10: in the gcf deployment, when get_models returned, the errors list of
\* the result holds exactly one entry, tagged with the stage's name, for each
\* stage that failed and nothing else, and a failed stage's field is at its
\* default.
C10_ErrorsItemizeFailedStages ==
    (deployment = "gcf" /\ pc[1] = "analyzed" /\ calls[1] # <<>>) =>
        /\ \A c \in Caps \cup {"flagged"} :
              /\ Count(result[1]["errors"], Tag(c)) = IF StageFailed(1, c) THEN 1 ELSE 0
              /\ StageFailed(1, c) => result[1][Field(c)] = DefaultOf(c)
        /\ Len(result[1]["errors"]) =
              Cardinality({ c \in Caps \cup {"flagged"} : StageFailed(1, c) })

\* C10 witness: sentiment and topic failed, NER, POS and the flagged words
\* succeeded.
C10_Witness ==
    /\ deployment = "gcf"
    /\ pc[1] = "analyzed"
    /\ result[1]["errors"] = <<"Sentiment failed", "Topic failed">>
    /\ result[1]["entities"] # <<>>
    /\ result[1]["sentiment"] = "neutral"


\* C11 (as claimed): a request that carries non-empty text, with or without
\* an audio locator, makes no transcription call.
C11_Claim ==
    Strip(req[1].text) # <<>> => transcribed[1] = <<>>

\* The body reports that the recording held no speech and does not report a
\* processing error.
NoSpeechOutcome(body) ==
    /\ "error" \in DOMAIN body => body["error"] = "Transcription yielded no text"
    /\ "errors" \in DOMAIN body =>
          \A i \in 1..Len(body["errors"]) : body["errors"][i] \notin CriticalErrors

\* C12 (as claimed): in both deployments a transcription that returns an
\* empty transcript is answered 200 with a no-speech outcome, and a
\* transcription that raises is answered with something else.
C12_Claim ==
    (pc[1] = "responded" /\ transcribed[1] # <<>>) =>
        LET call == transcribed[1][1] IN
        /\ (~call.raised /\ call.transcript = <<>>) =>
              (resp[1].status = 200 /\ NoSpeechOutcome(resp[1].body))
        /\ call.raised =>
              ~(resp[1].status = 200 /\ NoSpeechOutcome(resp[1].body))

\* The pieces s[from], s[from + 1], ... joined with "/".
RECURSIVE JoinFrom(_, _)
JoinFrom(s, from) ==
    IF from > Len(s) THEN <<>>
    ELSE IF from = Len(s) THEN s[from]
    ELSE s[from] \o <<"/">> \o JoinFrom(s, from + 1)

\* The path of the reference has the shape .../b/<bucket>/o/<path>.
Shaped(url) ==
    LET parts == SplitSlash(UrlPath(url)) IN
    Len(parts) >= 6 /\ parts[3] = <<"b">> /\ parts[5] = <<"o">>

\* The reference has the web-facing form
\* https://firebasestorage.googleapis.com/v0/b/<bucket>/o/<encoded-path>[?...]
\* with the slashes of the object path escaped.
WebFacing(url) ==
    LET parts == SplitSlash(UrlPath(url)) IN
    /\ Shaped(url)
    /\ url[1] = FirebasePrefix /\ url[2] = "/"
    /\ parts[2] = <<"v0">>
    /\ Len(parts) = 6

\* C13 (as claimed): a web-facing reference becomes gs://<bucket>/<decoded
\* full object path> and a reference without the shape is returned
\* unchanged.  A reference that has the shape but another origin, another
\* version segment or an unescaped "/" in its object path may be taken either
\* way: rewritten, with the whole decoded path as the object path, or
\* returned unchanged.
C13_Claim ==
    uriOut # NotConverted =>
        LET parts == SplitSlash(UrlPath(uriIn))
            Canonical == <<"gs://">> \o parts[4] \o <<"/">> \o Unquote(JoinFrom(parts, 6))
        IN IF ~Shaped(uriIn) THEN uriOut = uriIn
           ELSE IF WebFacing(uriIn) THEN uriOut = Canonical
           ELSE uriOut \in {uriIn, Canonical}

\* C14 (as claimed): a POST with no Authorization header, with one that does
\* not start with 'Bearer ', or with a token the verifier rejects is answered
\* 401 with the body {error: "Unauthorized"}.
C14_Claim ==
    (pc[1] = "responded" /\ req[1].method = "POST" /\ req[1].auth # "valid") =>
        /\ resp[1].status = 401
        /\ resp[1].body = [error |-> "Unauthorized"]

\* C15 (as claimed): an authenticated JSON POST whose transcription and
\* audioUrl are both empty or blank is answered 400 with the error
\* "No text provided and no audio to transcribe", and no transcription call,
\* model load or inference is made for it.
C15_Claim ==
    (/\ pc[1] = "responded"
     /\ req[1].method = "POST" /\ req[1].auth = "valid" /\ req[1].json
     /\ Strip(req[1].text) = <<>> /\ Strip(req[1].audio) = <<>>) =>
        /\ resp[1].status = 400
        /\ resp[1].body["error"] = "No text provided and no audio to transcribe"
        /\ transcribed[1] = <<>>
        /\ loadLog[1] = <<>>
        /\ calls[1] = <<>>

\* C16 (as claimed): the body of a 500 response holds the fixed message only.
C16_Claim ==
    (pc[1] = "responded" /\ resp[1].status = 500) =>
        resp[1].body["error"] = "Internal server error"

\* C17 (as claimed): a 200 response to an authenticated POST carries the
\* uid of the verified token as user_id.
C17_Claim ==
    (/\ pc[1] = "responded"
     /\ req[1].method = "POST" /\ req[1].auth = "valid"
     /\ resp[1].status = 200) =>
        /\ "user_id" \in DOMAIN resp[1].body
        /\ resp[1].body["user_id"] = Uid


\* The words of the lexicon.
LexiconWords ==
    UNION { { flagged_categories[c].word_list[k] :
                k \in 1..Len(flagged_categories[c].word_list) } :
            c \in 1..Len(flagged_categories) }

\* The category that lists the lexicon word w.
CategoryOf(w) ==
    LET c == CHOOSE c \in 1..Len(flagged_categories) :
                 \E k \in 1..Len(flagged_categories[c].word_list) :
                     flagged_categories[c].word_list[k] = w
    IN flagged_categories[c].category

\* The place of the lexicon word w in the lexicon, read category by category.
LexiconRank(w) ==
    CHOOSE r \in 1..100 :
        \E c \in 1..Len(flagged_categories) :
            \E k \in 1..Len(flagged_categories[c].word_list) :
                flagged_categories[c].word_list[k] = w /\ r = 10 * c + k

\* The run of the text in which the word w is first met.
FirstSeen(runs, w) ==
    CHOOSE i \in 1..Len(runs) :
        /\ CleanWord(runs[i].word) = w
        /\ \A j \in 1..(i - 1) : CleanWord(runs[j].word) # w

\* When the entry e is detected: the lexicon pass first, in the order of the
\* lexicon, then the repetition pass, in the order of the text.
DetectionRank(runs, e) ==
    IF e.category = "repetitive" THEN 100 + FirstSeen(runs, e.word)
    ELSE LexiconRank(e.word)

\* The number of tokens of the text that clean to the word w.
RECURSIVE Occurrences(_, _)
Occurrences(runs, w) ==
    IF runs = <<>> THEN 0
    ELSE (IF CleanWord(Head(runs).word) = w THEN Head(runs).times ELSE 0)
         + Occurrences(Tail(runs), w)

\* The number of tokens of the text that clean to more than two characters.
RECURSIVE CountedTokens(_)
CountedTokens(runs) ==
    IF runs = <<>> THEN 0
    ELSE (IF WordLen(CleanWord(Head(runs).word)) > 2 THEN Head(runs).times ELSE 0)
         + CountedTokens(Tail(runs))

\* The list holds a repetitive entry for the word w.
Repetitive(l, w) ==
    \E i \in 1..Len(l) : l[i].word = w /\ l[i].category = "repetitive"

\* C18: the list detect_flagged_words_server returns has its entries by
\* descending severity (high, medium, low), and entries of the same severity
\* in the order of their detection: the lexicon pass in category and
\* word-list order, then the repetition pass.
C18_SeverityThenDetectionOrder ==
    fwOut # NotFlagged =>
        \A i, j \in 1..Len(fwOut) :
            i < j =>
                /\ severity_order[fwOut[i].severity] >= severity_order[fwOut[j].severity]
                /\ fwOut[i].severity = fwOut[j].severity =>
                      DetectionRank(fwIn, fwOut[i]) < DetectionRank(fwIn, fwOut[j])

\* C18 witness: the text starts with a repeated word and ends with a
\* profanity; the list has the profanity, then the medical word, then the
\* repeated word.
C18_Witness ==
    /\ fwOut # NotFlagged
    /\ Len(fwIn) = 3 /\ fwIn[1].word = "foo" /\ fwIn[3].word = "Damn!"
    /\ Len(fwOut) = 3
    /\ fwOut[1].word = "damn" /\ fwOut[1].severity = "high"
    /\ fwOut[2].word = "pain" /\ fwOut[2].severity = "low"
    /\ fwOut[3].word = "foo" /\ fwOut[3].category = "repetitive"

\* C19: no word has two entries in the list detect_flagged_words_server
\* returns, and a lexicon word that meets the repetition threshold has its
\* one entry with the category and severity of the lexicon.
C19_OneEntryPerWord ==
    fwOut # NotFlagged =>
        /\ \A i, j \in 1..Len(fwOut) : i # j => fwOut[i].word # fwOut[j].word
        /\ \A w \in LexiconWords :
              (/\ Occurrences(fwIn, w) > 3
               /\ 20 * Occurrences(fwIn, w) > CountedTokens(fwIn)) =>
                  \E i \in 1..Len(fwOut) :
                      /\ fwOut[i].word = w
                      /\ fwOut[i].category = CategoryOf(w)
                      /\ fwOut[i].severity = SeverityOf(CategoryOf(w))
                      /\ fwOut[i].frequency = Occurrences(fwIn, w)

\* C19 witness: a lexicon word written four times, the whole text; the list
\* is its lexicon entry.
C19_Witness ==
    /\ fwIn = << [word |-> "kill", times |-> 4] >>
    /\ fwOut = << [word |-> "kill", category |-> "sensitive", frequency |-> 4,
                   severity |-> "high"] >>

\* C20 (as claimed): a word outside the lexicon has a repetitive entry
\* exactly when it is written more than 3 times and more than 5% of the
\* tokens of the text are that word.
C20_Claim ==
    fwOut # NotFlagged =>
        \A w \in {"foo", "bar"} :
            Repetitive(fwOut, w) <=>
                (Occurrences(fwIn, w) > 3 /\ 20 * Occurrences(fwIn, w) > Tokens(fwIn))


\* C21 (as claimed): whatever failed and whichever return was taken, the
\* result analyze_transcription returns holds the flagged-words list, and in
\* the gcf deployment it has the fields of a full result.
C21_Claim ==
    pc[1] = "analyzed" =>
        /\ "flagged_words" \in DOMAIN result[1]
        /\ deployment = "gcf" =>
              DOMAIN result[1] = DOMAIN GcfDefaults \cup {"flagged_words"}

\* C22 (as claimed): a request that was accepted for analysis is answered in
\* the end, even when a model load or a predict call does not return.
C22_Claim ==
    (pc[1] = "analyze") ~> (pc[1] = "responded")

\* main: no artifact of capability c is mounted, so its chain starts at the
\* fallback.
PrimaryAbsent(c) == deployment = "main" /\ ~mounted[c]

\* C23 (as claimed): in one get_models call a capability's fallback is loaded
\* only after its own primary was found absent or was tried and failed, and
\* never after its primary was loaded.
C23_Claim ==
    \A i \in 1..Len(loadLog[1]) :
        loadLog[1][i].src = "fallback" =>
            LET c == loadLog[1][i].cap
                Before(ok) == \E j \in 1..(i - 1) :
                                  /\ loadLog[1][j].cap = c
                                  /\ loadLog[1][j].src = "primary"
                                  /\ loadLog[1][j].ok = ok
            IN /\ PrimaryAbsent(c) \/ Before(FALSE)
               /\ ~Before(TRUE)

\* The number of predict calls of stage c in thread t's request.
PredictCalls(t, c) ==
    Cardinality({ i \in 1..Len(calls[t]) : calls[t][i].stage = c /\ calls[t][i].called })

\* C24 (as claimed): in a response that carries an analysis result, a stage
\* whose handle is unavailable had no predict call and is itemized as failed
\* in the errors of the response, and a stage whose handle is available had
\* exactly one predict call.
C24_Claim ==
    (/\ pc[1] = "responded"
     /\ resp[1].status = 200
     /\ "success" \in DOMAIN resp[1].body
     /\ resp[1].body["success"] = TRUE) =>
        \A c \in Caps :
            IF cache[c] = None
            THEN /\ PredictCalls(1, c) = 0
                 /\ "errors" \in DOMAIN resp[1].body
                 /\ Count(resp[1].body["errors"], Tag(c)) = 1
            ELSE PredictCalls(1, c) = 1

\* C25: a transcription call, an audio download, a model load or a predict
\* call is made only for a POST whose token the verifier has accepted, and
\* an OPTIONS request makes none of them and no call of the verifier.
C25_NothingBeforeVerification ==
    /\ (transcribed[1] # <<>> \/ loadLog[1] # <<>> \/ calls[1] # <<>>) =>
          (req[1].method = "POST" /\ verified[1] = << TRUE >>)
    /\ req[1].method = "OPTIONS" =>
          (verified[1] = <<>> /\ transcribed[1] = <<>> /\ loadLog[1] = <<>>
               /\ calls[1] = <<>>)

\* C25 witness: an answered POST with an accepted token for which audio was
\* transcribed, a model was loaded and a stage was run.
C25_Witness ==
    /\ pc[1] = "responded"
    /\ req[1].method = "POST"
    /\ verified[1] = << TRUE >>
    /\ transcribed[1] # <<>> /\ loadLog[1] # <<>> /\ calls[1] # <<>>
    /\ resp[1].status = 200

\* C26 (as claimed): when transcribe_audio has returned or raised, no
\* temporary file it created exists.
C26_Claim ==
    ta.pc \in {"returned", "raised"} => TempFiles = 0

\* C27 (as claimed): in the gcf deployment GET /health says models_loaded
\* only when the four handles are cached, and once it has said so it never
\* says otherwise.
C27_Claim ==
    /\ [](health.models_loaded => \A c \in Caps : cache[c] # None)
    /\ [][health.models_loaded => health'.models_loaded]_vars

============================================================================
